---- MODULE Spec2Model ----
(***************************************************************************)
(* Costcodle: the session/stats state machine of StateManager and the      *)
(* handlers of gameInitializer, gameMechanics and modalManager that drive  *)
(* it, over a localStorage that survives page reloads.                     *)
(***************************************************************************)
EXTENDS Integers, Sequences, FiniteSets, TLC

\* ---------------------------------------------------------------- bounds
MaxDay == 2          \* days (values of getGameNumber()) the model walks through
MaxGames == 2        \* cap on userStats.numGames
MaxWins == 2         \* cap on userStats.numWins
PastDays == 1        \* calendar cells before the first game that can be clicked
MaxApiGuesses == 7   \* longest guess list built by direct addGuess calls
MaxDateDay == 12     \* days after the start date the clock is sampled on
MaxInitCalls == 2    \* calls of CostcodleApp.init() / restart() followed
MaxPriceTextLen == 5 \* longest text passed to validatePriceInput
MaxNumberTextLen == 3 \* longest text passed to validateGameNumber
\* the highest product price, in cents, createGuessObject is applied to
MaxTargetCents == 276

\* ------------------------------------------------------------- constants
MAX_GUESSES == 6
WIN_THRESHOLD_PERCENT == 5
NEAR_THRESHOLD_PERCENT == 25
TOTAL_GAMES == 3399
UNSET_GAME_NUMBER == 0 - 1

GUESS_WIN == "guess-win"
GUESS_NEAR == "guess-near"
GUESS_FAR == "guess-far"
DIR_UP == "&uarr;"
DIR_DOWN == "&darr;"
DIR_CHECK == "&check;"

KEY_ARCHIVE_MODE == "archiveMode"
KEY_SELECTED_GAME_NUMBER == "selectedGameNumber"
KEY_GAME_STATE == "state"
KEY_USER_STATS == "stats"

StorageKeys ==
  {KEY_ARCHIVE_MODE, KEY_SELECTED_GAME_NUMBER, KEY_GAME_STATE, KEY_USER_STATS}

DEFAULT_USER_STATS ==
  [numGames |-> 0, numWins |-> 0, winsInNum |-> <<0, 0, 0, 0, 0, 0>>,
   currentStreak |-> 0, maxStreak |-> 0]

DEFAULT_GAME_STATE ==
  [gameNumber |-> UNSET_GAME_NUMBER, guesses |-> <<>>, hasWon |-> FALSE]

\* localStorage holds, per key, no text (getItem returns null) or one value
Missing == <<>>

\* games.json: the price of game n (two prices, so that one input is a win for
\* one game and a miss for the other)
PriceOf(n) == IF n % 2 = 1 THEN 100 ELSE 200

\* the prices a player types in the model
GuessInputs == {100, 200}

\* ------------------------------------------------------------ dates
\* Timestamps are milliseconds counted from COSTCODLE_START_DATE, local
\* midnight of 09/21/2023; a local day has MS_PER_DAY milliseconds (no
\* daylight-saving change inside the days modelled).
COSTCODLE_START_DATE == 0
MS_PER_DAY == 1000 * 3600 * 24
NOON == 12 * 3600 * 1000
START_YEAR == 2023
START_MONTH == 9
START_DAY == 21

\* Math.ceil of x / y for y > 0
Ceil(x, y) == 0 - ((0 - x) \div y)

\* dateUtils.getGameNumber at the instant t
getGameNumber(t) == Ceil(t - COSTCODLE_START_DATE, MS_PER_DAY)

DaysIn(y, mo) ==
  LET IsLeap == (y % 4 = 0 /\ y % 100 # 0) \/ y % 400 = 0
  IN
    IF mo = 2 THEN (IF IsLeap THEN 29 ELSE 28)
    ELSE IF mo \in {4, 6, 9, 11} THEN 30 ELSE 31

\* Date.prototype.setDate with a day outside the month: the date rolls over
\* into the following (or preceding) months
RECURSIVE NormalizeDate(_, _, _)
NormalizeDate(y, mo, d) ==
  IF d > DaysIn(y, mo)
    THEN (IF mo = 12 THEN NormalizeDate(y + 1, 1, d - DaysIn(y, mo))
          ELSE NormalizeDate(y, mo + 1, d - DaysIn(y, mo)))
  ELSE IF d < 1
    THEN (IF mo = 1 THEN NormalizeDate(y - 1, 12, d + DaysIn(y - 1, 12))
          ELSE NormalizeDate(y, mo - 1, d + DaysIn(y, mo - 1)))
  ELSE [year |-> y, month |-> mo, day |-> d]

\* toLocaleDateString('en-US', {year: 'numeric', month: 'short',
\* day: 'numeric'}): "Sep 21, 2023" as its three parts
toLocaleDateString(date) ==
  LET MONTH_SHORT ==
        <<"Jan", "Feb", "Mar", "Apr", "May", "Jun",
          "Jul", "Aug", "Sep", "Oct", "Nov", "Dec">>
  IN
    [month |-> MONTH_SHORT[date.month], day |-> date.day, year |-> date.year]

\* dateUtils.getDateForGameNumber
getDateForGameNumber(gameNum) ==
  toLocaleDateString(
    NormalizeDate(START_YEAR, START_MONTH, START_DAY + gameNum - 1))

\* ------------------------------------------------------------ games.json
JsString(chars) == [t |-> "string", s |-> chars, n |-> 0]
JsNumber(x) == [t |-> "number", s |-> << >>, n |-> x]

\* !v is false
Truthy(v) ==
  \/ v.t = "string" /\ v.s # << >>
  \/ v.t = "number" /\ v.n # 0

DIGITS == <<"0", "1", "2", "3", "4", "5", "6", "7", "8", "9">>

IsDigit(c) == \E i \in 1..10 : DIGITS[i] = c

RECURSIVE DigitsValue(_)
DigitsValue(chars) ==
  LET DigitValue(c) == (CHOOSE i \in 1..10 : DIGITS[i] = c) - 1
  IN
    IF chars = << >> THEN 0
    ELSE DigitsValue(SubSeq(chars, 1, Len(chars) - 1)) * 10
           + DigitValue(chars[Len(chars)])

AllDigits(chars) ==
  chars # << >> /\ \A i \in 1..Len(chars) : IsDigit(chars[i])

NaN == << >>

\* Number(string) on signed decimal integers: << n >>, or NaN
Number(chars) ==
  IF chars = << >> THEN <<0>>
  ELSE IF AllDigits(chars) THEN <<DigitsValue(chars)>>
  ELSE IF chars[1] = "-" /\ AllDigits(Tail(chars))
         THEN <<0 - DigitsValue(Tail(chars))>>
  ELSE NaN

RECURSIVE DigitsOf(_)
DigitsOf(n) ==
  IF n < 10 THEN <<DIGITS[n + 1]>>
  ELSE Append(DigitsOf(n \div 10), DIGITS[(n % 10) + 1])

\* a well-formed entry of game n
GoodEntry(n) ==
  LET SomeName == JsString(<<"n">>)
      SomeImage == JsString(<<"i">>)
  IN
    [name |-> SomeName,
     price |-> JsString(<<"$">> \o DigitsOf(PriceOf(n))),
     image |-> SomeImage]

\* games.json is a static file. A file is given by its entries for the odd
\* and for the even game numbers (index n % 2): << entry >>, or << >> where
\* the key is missing.
GoodFile == [r \in {0, 1} |-> <<GoodEntry(r)>>]

\* the files whose odd-numbered games are missing or malformed
BadFiles ==
  LET \* entries that fetchGameData has to turn down
      BadEntries(n) ==
        { [GoodEntry(n) EXCEPT !.name = JsString(<< >>)],
          [GoodEntry(n) EXCEPT !.price = JsNumber(PriceOf(n))],
          [GoodEntry(n) EXCEPT !.price = JsString(DigitsOf(PriceOf(n)))],
          [GoodEntry(n) EXCEPT !.price = JsString(<<"$", "a">>)],
          [GoodEntry(n) EXCEPT !.price = JsString(<<"$", "0">>)] }
  IN
    { [GoodFile EXCEPT ![1] = e] :
        e \in {<< >>} \cup {<<x>> : x \in BadEntries(1)} }

\* what fetch('./games.json') can give when game n is wanted
Responses(file, n) ==
  LET \* json['game-' + n]
      EntryOf == IF n \in 1..TOTAL_GAMES THEN file[n % 2] ELSE << >>
      HttpError == [ok |-> FALSE, entry |-> << >>]
  IN
    {HttpError, [ok |-> TRUE, entry |-> EntryOf]}

\* fetchGameData accepting a price that is not positive
fetchGameDataThrows_NoSignTest(response) ==
  IF ~response.ok THEN TRUE
  ELSE IF response.entry = << >> THEN TRUE
  ELSE LET gameData == response.entry[1] IN
    IF ~Truthy(gameData.name) \/ ~Truthy(gameData.price)
         \/ ~Truthy(gameData.image)
      THEN TRUE
    ELSE IF gameData.price.t # "string" THEN TRUE
    ELSE IF gameData.price.s[1] # "$" THEN TRUE
    ELSE Number(Tail(gameData.price.s)) = NaN

\* fetchGameData: the cases in which it throws
fetchGameDataThrows(response) ==
  IF ~response.ok THEN TRUE
  ELSE IF response.entry = << >> THEN TRUE
  ELSE LET gameData == response.entry[1] IN
    IF ~Truthy(gameData.name) \/ ~Truthy(gameData.price)
         \/ ~Truthy(gameData.image)
      THEN TRUE
    ELSE IF gameData.price.t # "string" THEN TRUE
    ELSE IF gameData.price.s[1] # "$" THEN TRUE
    ELSE LET priceNumber == Number(Tail(gameData.price.s)) IN
      IF priceNumber = NaN THEN TRUE ELSE priceNumber[1] <= 0

\* the price fetchGameData hands to setProductData
priceNumberOf(response) == Number(Tail(response.entry[1].price.s))[1]

NoResp == << >>

\* ------------------------------------------------------------ validation
MAX_PRICE == 10000
MAX_DECIMAL_PLACES == 2

INVALID_INPUT == "Input must be a string"
INVALID_NUMBER == "Input must contain only numbers and decimal points"
PRICE_RANGE == "Price must be between $0.01 and $10,000"
DECIMAL_PLACES == "Price can have at most 2 decimal places"
GAME_NUMBER_RANGE == "Game number must be between 1 and {max}"

\* String.prototype.trim on the one whitespace character of the model
RECURSIVE TrimLeft(_)
TrimLeft(chars) ==
  IF chars # << >> /\ Head(chars) = " " THEN TrimLeft(Tail(chars)) ELSE chars

Trim(chars) ==
  LET RECURSIVE TrimRight(_)
      TrimRight(x) ==
        IF x # << >> /\ x[Len(x)] = " "
          THEN TrimRight(SubSeq(x, 1, Len(x) - 1))
          ELSE x
  IN
    TrimRight(TrimLeft(chars))

\* replace(/[$,\s]/g, '')
RECURSIVE RemoveSymbols(_)
RemoveSymbols(chars) ==
  IF chars = << >> THEN << >>
  ELSE IF Head(chars) \in {"$", ",", " "} THEN RemoveSymbols(Tail(chars))
  ELSE <<Head(chars)>> \o RemoveSymbols(Tail(chars))

\* the digits a text starts with
RECURSIVE LeadingDigits(_)
LeadingDigits(chars) ==
  IF chars # << >> /\ IsDigit(Head(chars))
    THEN <<Head(chars)>> \o LeadingDigits(Tail(chars))
    ELSE << >>

\* what follows the leading digits and one '.', if there is one
AfterPoint(chars) ==
  LET Drop(n) == SubSeq(chars, n + 1, Len(chars))
      rest == Drop(Len(LeadingDigits(chars)))
  IN
    IF rest # << >> /\ Head(rest) = "." THEN Tail(rest) ELSE rest

\* /^\d*\.?\d*$/.test
MatchesPrice(chars) ==
  \A i \in 1..Len(AfterPoint(chars)) : IsDigit(AfterPoint(chars)[i])

\* parseFloat of a text that matches: NaN without a digit, else the whole
\* part and the decimals
parseFloat(chars) ==
  IF LeadingDigits(chars) = << >> /\ AfterPoint(chars) = << >> THEN NaN
  ELSE <<[whole |-> DigitsValue(LeadingDigits(chars)),
          decimals |-> AfterPoint(chars)]>>

AllZero(chars) == \A i \in 1..Len(chars) : chars[i] = "0"

\* numValue < 0.01
BelowMinPrice(v) ==
  /\ v.whole = 0
  /\ AllZero(SubSeq(v.decimals, 1,
                    IF Len(v.decimals) < 2 THEN Len(v.decimals) ELSE 2))

\* numValue > 10000
AboveMaxPrice(v) ==
  \/ v.whole > MAX_PRICE
  \/ v.whole = MAX_PRICE /\ ~AllZero(v.decimals)

\* cleanInput.match(/\.(\d+)/): the digits after the point, if any
DecimalMatch(chars) == AfterPoint(chars)

\* the value in cents of a number with at most two decimals
Cents(v) ==
  LET d == v.decimals \o <<"0", "0">> IN
  v.whole * 100 + DigitsValue(SubSeq(d, 1, 2))

\* toFixed(2) of a number with at most two decimals
toFixed2(v) ==
  DigitsOf(v.whole) \o <<".">> \o SubSeq(v.decimals \o <<"0", "0">>, 1, 2)

Invalid(error) == [valid |-> FALSE, error |-> error, value |-> 0,
                   formatted |-> << >>]

\* validatePriceInput with the range test after the decimals test
validatePriceInput_DecimalsFirst(input) ==
  IF ~Truthy(input) \/ input.t # "string" THEN Invalid(INVALID_INPUT)
  ELSE LET cleanInput == RemoveSymbols(Trim(input.s)) IN
    IF ~MatchesPrice(cleanInput) THEN Invalid(INVALID_NUMBER)
    ELSE IF Len(DecimalMatch(cleanInput)) > MAX_DECIMAL_PLACES
      THEN Invalid(DECIMAL_PLACES)
    ELSE LET numValue == parseFloat(cleanInput) IN
      IF numValue = NaN THEN Invalid(PRICE_RANGE)
      ELSE IF BelowMinPrice(numValue[1]) \/ AboveMaxPrice(numValue[1])
        THEN Invalid(PRICE_RANGE)
      ELSE [valid |-> TRUE, error |-> "", value |-> Cents(numValue[1]),
            formatted |-> toFixed2(numValue[1])]

\* validation.validatePriceInput; the value is in cents
validatePriceInput(input) ==
  IF ~Truthy(input) \/ input.t # "string" THEN Invalid(INVALID_INPUT)
  ELSE LET cleanInput == RemoveSymbols(Trim(input.s)) IN
    IF ~MatchesPrice(cleanInput) THEN Invalid(INVALID_NUMBER)
    ELSE LET numValue == parseFloat(cleanInput) IN
      IF numValue = NaN THEN Invalid(PRICE_RANGE)
      ELSE IF BelowMinPrice(numValue[1]) \/ AboveMaxPrice(numValue[1])
        THEN Invalid(PRICE_RANGE)
      ELSE IF Len(DecimalMatch(cleanInput)) > MAX_DECIMAL_PLACES
        THEN Invalid(DECIMAL_PLACES)
      ELSE [valid |-> TRUE, error |-> "", value |-> Cents(numValue[1]),
            formatted |-> toFixed2(numValue[1])]

\* parseInt(text, 10): leading whitespace, a sign, then the digits the text
\* starts with; NaN without a digit
parseInt(chars) ==
  LET t == TrimLeft(chars)
      neg == t # << >> /\ Head(t) = "-"
      body == IF neg THEN Tail(t) ELSE t
      digits == LeadingDigits(body)
  IN IF digits = << >> THEN NaN
     ELSE <<IF neg THEN 0 - DigitsValue(digits) ELSE DigitsValue(digits)>>

\* validation.validateGameNumber on a string or a number; num and the value
\* returned are in tenths
validateGameNumberResult(gameNumber, maxGameNumber) ==
  LET num == IF gameNumber.t = "string"
               THEN (IF parseInt(gameNumber.s) = NaN THEN NaN
                     ELSE <<parseInt(gameNumber.s)[1] * 10>>)
               ELSE <<gameNumber.n>>
  IN IF num = NaN THEN Invalid(GAME_NUMBER_RANGE)
     ELSE IF num[1] < 10 \/ num[1] > maxGameNumber * 10
       THEN Invalid(GAME_NUMBER_RANGE)
     ELSE [valid |-> TRUE, error |-> "", value |-> num[1],
           formatted |-> << >>]

\* no utility was called yet
NoCall == [fn |-> "none", arg |-> << >>, ret |-> << >>, done |-> FALSE]

VARIABLES
  today,               \* the value dateUtils.getGameNumber() returns now
  pc,                  \* page: "constructed", "fetching", "ready", "failed"
  fetchNum,            \* the game number startGame is fetching
  isArchiveMode,       \* AppState.isArchiveMode
  selectedGameNumber,  \* AppState.selectedGameNumber
  gameNumber,          \* AppState.gameNumber
  productPrice,        \* AppState.productPrice
  gameState,           \* AppState.gameState
  userStats,           \* AppState.userStats
  store,               \* localStorage, by key
  broken,              \* the keys for which localStorage.setItem throws
  op,                  \* the last handler that ran, with the branch it took
  wlog,                \* the storage.set calls of the last handler: <<key, ok>>
  dailyWins,           \* the last game won in daily mode, and how many times
                       \* a win of it was added to the stats (capped at 2)
  wonDaily,            \* the last game number a ready daily page showed as won
  exc,                 \* stats when daily mode was left for the archive
  isLoading,           \* AppState.isLoading
  gamesJson,           \* the games.json file on the server
  lastResp,            \* the answer the last fetch of games.json got
  currTime,            \* Date.now(), from COSTCODLE_START_DATE
  gameDate,            \* the last result of getDateForGameNumber
  unreadable,          \* the keys for which localStorage.getItem throws
  guessObjects,        \* createGuessObject of the whole-dollar prices, worked out
                       \* when the page is built
  app,                 \* CostcodleApp: initialized, its init() calls, counts
  call                 \* the last direct call of a utility: fn, arg, ret

vars == <<today, pc, fetchNum, isArchiveMode, selectedGameNumber, gameNumber,
          productPrice, gameState, userStats, store, broken, op, wlog,
          dailyWins, wonDaily, exc, isLoading, gamesJson, lastResp,
          currTime, gameDate, unreadable, guessObjects, app, call>>

\* ------------------------------------------------------------ machine
\* The handlers are sequential code: each is an operator from a machine record
\* (the StateManager fields, localStorage and the log of writes) to the next.

Cur ==
  [isArchiveMode |-> isArchiveMode, selectedGameNumber |-> selectedGameNumber,
   gameNumber |-> gameNumber, productPrice |-> productPrice,
   gameState |-> gameState, userStats |-> userStats,
   store |-> store, broken |-> broken, unreadable |-> unreadable,
   wlog |-> <<>>]

\* storage.set: JSON.stringify and setItem; a throw (quota exceeded) is caught,
\* false is returned and the old text stays
storage_set(m, key, value) ==
  IF key \notin m.broken
    THEN [m EXCEPT !.store = [@ EXCEPT ![key] = <<value>>],
                   !.wlog = Append(@, <<key, TRUE>>)]
    ELSE [m EXCEPT !.wlog = Append(@, <<key, FALSE>>)]

\* a stored text that JSON.parse rejects
Malformed == <<"not", "json">>

\* storage.get that does not catch: it reads through a failing getItem
storage_get_ReadThrough(m, key, defaultValue) ==
  LET item == m.store[key] IN
  IF item = Missing THEN defaultValue
  ELSE IF item = Malformed THEN defaultValue
  ELSE item[1]

\* storage.get: the default when getItem throws, for a missing key, and when
\* JSON.parse throws; else the parsed value
storage_get(m, key, defaultValue) ==
  LET \* localStorage.getItem: throws, or gives the stored text (null if
      \* missing)
      r == [threw |-> key \in m.unreadable, item |-> m.store[key]]
  IN
    IF r.threw THEN defaultValue
    ELSE IF r.item = Missing THEN defaultValue
    ELSE IF r.item = Malformed THEN defaultValue
    ELSE r.item[1]

persist(m, key) ==
  CASE key = "gameState" -> storage_set(m, KEY_GAME_STATE, m.gameState)
    [] key = "userStats" -> storage_set(m, KEY_USER_STATS, m.userStats)
    [] key = "archiveMode" ->
         storage_set(m, KEY_ARCHIVE_MODE, m.isArchiveMode)
    [] key = "selectedGameNumber" ->
         storage_set(m, KEY_SELECTED_GAME_NUMBER, m.selectedGameNumber)

\* { ...old, ...updates }
Merge(old, updates) ==
  [f \in DOMAIN old |-> IF f \in DOMAIN updates THEN updates[f] ELSE old[f]]

updateGameState(m, updates) ==
  persist([m EXCEPT !.gameState = Merge(@, updates)], "gameState")

updateUserStats(m, updates) ==
  persist([m EXCEPT !.userStats = Merge(@, updates)], "userStats")

\* parseInt(x) || 1 on the stored selection
ParseSelected(v) == IF v = 0 THEN 1 ELSE v

loadFromStorage(m) ==
  LET am == storage_get(m, KEY_ARCHIVE_MODE, FALSE)
      gs == storage_get(m, KEY_GAME_STATE, DEFAULT_GAME_STATE)
      us == storage_get(m, KEY_USER_STATS, DEFAULT_USER_STATS)
  IN [m EXCEPT !.isArchiveMode = am,
               !.selectedGameNumber =
                   ParseSelected(storage_get(m, KEY_SELECTED_GAME_NUMBER, 1)),
               !.gameState = gs,
               !.userStats = us]

calculateGameNumber(m, now) ==
  [m EXCEPT !.gameNumber = IF m.isArchiveMode THEN m.selectedGameNumber ELSE now]

\* new StateManager(): fresh fields, then init()
Construct(m, now) ==
  calculateGameNumber(loadFromStorage([m EXCEPT !.productPrice = 0]), now)

toggleArchiveMode(m, now) ==
  LET m1 == [m EXCEPT !.isArchiveMode = ~m.isArchiveMode]
      m2 == [m1 EXCEPT !.gameNumber =
                 IF m1.isArchiveMode THEN m1.selectedGameNumber ELSE now]
  IN persist(m2, "archiveMode")

setSelectedGameNumber(m, n) ==
  LET m1 == [m EXCEPT !.selectedGameNumber = n]
      m2 == IF m1.isArchiveMode THEN [m1 EXCEPT !.gameNumber = n] ELSE m1
  IN persist(m2, "selectedGameNumber")

FreshSession(n) == [gameNumber |-> n, guesses |-> <<>>, hasWon |-> FALSE]

\* the stale branch of the daily-mode logic of initializeGame
ReconcileStale(m) ==
  LET m1 == IF m.gameState.hasWon = FALSE
              THEN updateUserStats(m, [currentStreak |-> 0])
              ELSE m
      m2 == updateGameState(m1, FreshSession(m1.gameNumber))
  IN updateUserStats(m2, [numGames |-> m2.userStats.numGames + 1])

\* initializeGame without the game number comparison in daily mode
initializeGame_NoCompare(m) ==
  IF m.isArchiveMode
    THEN updateGameState(m, FreshSession(m.gameNumber))
    ELSE ReconcileStale(m)

\* initializeGame whose stale branch forgets to count the new game
initializeGame_NoCount(m) ==
  IF m.isArchiveMode
    THEN updateGameState(m, FreshSession(m.gameNumber))
    ELSE IF m.gameState.gameNumber # m.gameNumber
      THEN LET m1 == IF m.gameState.hasWon = FALSE
                       THEN updateUserStats(m, [currentStreak |-> 0])
                       ELSE m
           IN updateGameState(m1, FreshSession(m1.gameNumber))
      ELSE m

\* initializeGame that resumes an archived game like a daily one
initializeGame_ArchiveResume(m) ==
  IF m.gameState.gameNumber # m.gameNumber
    THEN (IF m.isArchiveMode
            THEN updateGameState(m, FreshSession(m.gameNumber))
            ELSE ReconcileStale(m))
    ELSE m

initializeGame(m) ==
  IF m.isArchiveMode
    THEN updateGameState(m, FreshSession(m.gameNumber))
    ELSE IF m.gameState.gameNumber # m.gameNumber
      THEN ReconcileStale(m)
      ELSE m

\* ------------------------------------------------------------ numbers
\* JavaScript numbers are IEEE-754 doubles. A natural number of any size is a
\* sequence of limbs, least significant first, without high zero limbs; a
\* finite double is a sign, a mantissa of MANTISSA_BITS bits and an exponent:
\* the value m * 2^e (zero has the empty mantissa).
LIMB == 2^15

MANTISSA_BITS == 52 + 1

RECURSIVE Trim0(_)
Trim0(a) ==
  IF a # << >> /\ a[Len(a)] = 0 THEN Trim0(SubSeq(a, 1, Len(a) - 1)) ELSE a

RECURSIVE NatOf(_)
NatOf(n) == IF n = 0 THEN << >> ELSE <<n % LIMB>> \o NatOf(n \div LIMB)

AddN(a, b) ==
  LET LimbAt(x, i) == IF i <= Len(x) THEN x[i] ELSE 0
      RECURSIVE AddFrom(_, _)
      AddFrom(i, carry) ==
        IF i > Len(a) /\ i > Len(b)
          THEN (IF carry = 0 THEN << >> ELSE <<carry>>)
          ELSE LET sum == LimbAt(a, i) + LimbAt(b, i) + carry
               IN <<sum % LIMB>> \o AddFrom(i + 1, sum \div LIMB)
  IN AddFrom(1, 0)

\* a - b for a >= b
SubN(a, b) ==
  LET LimbAt(x, i) == IF i <= Len(x) THEN x[i] ELSE 0
      RECURSIVE SubFrom(_, _)
      SubFrom(i, borrow) ==
        IF i > Len(a) THEN << >>
        ELSE LET d == LimbAt(a, i) - LimbAt(b, i) - borrow
             IN <<(d + LIMB) % LIMB>>
                  \o SubFrom(i + 1, IF d < 0 THEN 1 ELSE 0)
  IN Trim0(SubFrom(1, 0))

\* -1, 0 or 1 as a is below, equal to or above b
CmpN(a, b) ==
  LET RECURSIVE CmpAt(_)
      CmpAt(i) ==
        IF i = 0 THEN 0
        ELSE IF a[i] < b[i] THEN 0 - 1
        ELSE IF a[i] > b[i] THEN 1
        ELSE CmpAt(i - 1)
  IN IF Len(a) < Len(b) THEN 0 - 1
     ELSE IF Len(a) > Len(b) THEN 1
     ELSE CmpAt(Len(a))

\* a * k for a limb k
MulSmall(a, k) ==
  LET RECURSIVE MulSmallFrom(_, _)
      MulSmallFrom(i, carry) ==
        IF i > Len(a)
          THEN (IF carry = 0 THEN << >> ELSE <<carry>>)
          ELSE LET prod == a[i] * k + carry
               IN <<prod % LIMB>> \o MulSmallFrom(i + 1, prod \div LIMB)
  IN Trim0(MulSmallFrom(1, 0))

MulN(a, b) ==
  LET RECURSIVE MulFrom(_)
      MulFrom(j) ==
        IF j > Len(b) THEN << >>
        ELSE AddN(MulSmall(a, b[j]),
                  LET rest == MulFrom(j + 1)
                  IN IF rest = << >> THEN << >> ELSE <<0>> \o rest)
  IN MulFrom(1)

\* a * 2^n
RECURSIVE Shl(_, _)
Shl(a, n) ==
  IF a = << >> \/ n = 0 THEN a
  ELSE IF n >= 15 THEN <<0>> \o Shl(a, n - 15)
  ELSE Shl(MulSmall(a, 2), n - 1)

\* the double nearest to a * 2^e (plus a fraction below one unit of a when
\* sticky): the mantissa is rounded to MANTISSA_BITS bits, ties to even
Double(neg, a, e, sticky) ==
  LET Half(x) ==
        Trim0([i \in 1..Len(x) |->
                 (x[i] \div 2)
                   + (IF i < Len(x) /\ x[i + 1] % 2 = 1
                        THEN LIMB \div 2 ELSE 0)])
      RECURSIVE BitLenSmall(_)
      BitLenSmall(n) == IF n = 0 THEN 0 ELSE 1 + BitLenSmall(n \div 2)
      BitLen(x) ==
        IF x = << >> THEN 0
        ELSE 15 * (Len(x) - 1) + BitLenSmall(x[Len(x)])
      Odd(x) == x # << >> /\ x[1] % 2 = 1
      RECURSIVE RoundToMantissa(_, _, _, _)
      RoundToMantissa(x, ex, guard, rest) ==
        IF BitLen(x) > MANTISSA_BITS
          THEN RoundToMantissa(Half(x), ex + 1, Odd(x), guard \/ rest)
          ELSE LET up == guard /\ (rest \/ Odd(x))
                   r == IF up THEN AddN(x, <<1>>) ELSE x
               IN IF BitLen(r) > MANTISSA_BITS
                    THEN [m |-> Half(r), e |-> ex + 1]
                    ELSE [m |-> r, e |-> ex]
      r == RoundToMantissa(a, e, FALSE, sticky)
      up == MANTISSA_BITS - BitLen(r.m)
  IN IF r.m = << >>
       THEN [inf |-> FALSE, neg |-> FALSE, m |-> << >>, e |-> 0]
       ELSE [inf |-> FALSE, neg |-> neg, m |-> Shl(r.m, up), e |-> r.e - up]

IsZero(x) == ~x.inf /\ x.m = << >>

\* the double of an integer
FromInt(n) == Double(n < 0, NatOf(IF n < 0 THEN 0 - n ELSE n), 0, FALSE)

\* x * y
fmul(x, y) == Double(x.neg # y.neg, MulN(x.m, y.m), x.e + y.e, FALSE)

\* x / y for y # 0, by binary long division: the quotient
\* floor(x.m * 2^steps / y.m) and whether a remainder is left
fdiv(x, y) ==
  LET RECURSIVE DivStep(_, _, _)
      DivStep(q, r, steps) ==
        IF steps = 0 THEN [q |-> q, r |-> r]
        ELSE LET r2 == MulSmall(r, 2)
                 ge == CmpN(r2, y.m) >= 0
                 q2 == IF ge THEN AddN(MulSmall(q, 2), <<1>>)
                       ELSE MulSmall(q, 2)
                 r3 == IF ge THEN SubN(r2, y.m) ELSE r2
             IN IF Len(q2) + Len(r3) >= 0 THEN DivStep(q2, r3, steps - 1)
                ELSE [q |-> q2, r |-> r3]
      ge == CmpN(x.m, y.m) >= 0
      qr == DivStep(IF ge THEN <<1>> ELSE << >>,
                    IF ge THEN SubN(x.m, y.m) ELSE x.m,
                    MANTISSA_BITS + 2)
  IN IF IsZero(x) THEN x
     ELSE Double(x.neg # y.neg, qr.q, x.e - y.e - (MANTISSA_BITS + 2),
                 qr.r # << >>)

\* the mantissas of x and y over their common (lower) exponent
Aligned(x, y) ==
  LET e0 == IF IsZero(x) THEN y.e ELSE IF IsZero(y) THEN x.e
            ELSE IF x.e < y.e THEN x.e ELSE y.e
  IN [x |-> IF IsZero(x) THEN << >> ELSE Shl(x.m, x.e - e0),
      y |-> IF IsZero(y) THEN << >> ELSE Shl(y.m, y.e - e0),
      e |-> e0]

\* x - y
fsub(x, y) ==
  LET al == Aligned(x, y) IN
  IF x.neg # y.neg /\ ~IsZero(x) /\ ~IsZero(y)
    THEN Double(x.neg, AddN(al.x, al.y), al.e, FALSE)
  ELSE IF CmpN(al.x, al.y) >= 0
    THEN Double(IF IsZero(x) THEN ~y.neg ELSE x.neg,
                SubN(al.x, al.y), al.e, FALSE)
  ELSE Double(IF IsZero(x) THEN ~y.neg ELSE ~x.neg,
              SubN(al.y, al.x), al.e, FALSE)

\* x <= y for x, y >= 0
fle(x, y) ==
  IF x.inf THEN y.inf
  ELSE IF y.inf THEN TRUE
  ELSE LET al == Aligned(x, y) IN CmpN(al.x, al.y) <= 0

\* the number a decimal text of that many cents denotes (parseFloat, Number)
DecimalNumber(cents) == fdiv(FromInt(cents), FromInt(100))

\* mathUtils.calculatePercentDifference
calculatePercentDifference(guess, target) ==
  IF IsZero(target)
    THEN (IF IsZero(guess) THEN FromInt(0)
          ELSE [inf |-> TRUE, neg |-> FALSE, m |-> << >>, e |-> 0])
  ELSE fsub(fmul(fdiv(fmul(guess, FromInt(100)),
                      fmul(target, FromInt(100))),
                 FromInt(100)),
            FromInt(100))

\* createGuessObject for the numbers guess and target; guessValue is what the
\* record keeps of the guess
createGuessObjectOf(guessValue, guess, target) ==
  LET percentAway == calculatePercentDifference(guess, target)
      abs == [percentAway EXCEPT !.neg = FALSE]
      closeness ==
        IF fle(abs, FromInt(WIN_THRESHOLD_PERCENT)) THEN GUESS_WIN
        ELSE IF fle(abs, FromInt(NEAR_THRESHOLD_PERCENT)) THEN GUESS_NEAR
        ELSE GUESS_FAR
      direction ==
        IF closeness = GUESS_WIN THEN DIR_CHECK
        ELSE IF percentAway.neg THEN DIR_UP
        ELSE DIR_DOWN
  IN [guess |-> guessValue, closeness |-> closeness, direction |-> direction]

\* createGuessObject of the whole-dollar prices of the games and of the
\* guesses; the variable guessObjects holds it, so that the arithmetic is done
\* once and not in every state (it is empty where no guess is made)
GuessObjects ==
  LET WholePrices == {0} \cup GuessInputs \cup {PriceOf(n) : n \in {0, 1}}
  IN [g \in WholePrices |->
       [t \in WholePrices |->
          createGuessObjectOf(g, FromInt(g), FromInt(t))]]

\* createGuessObject for a guess and a product price in whole dollars
createGuessObject(guessValue, price) == guessObjects[guessValue][price]

\* canGuess that does not look at hasWon
canGuess_IgnoreWon(m) == Len(m.gameState.guesses) < MAX_GUESSES

\* canGuess that still accepts at MAX_GUESSES guesses
canGuess_Inclusive(m) ==
  Len(m.gameState.guesses) <= MAX_GUESSES /\ ~m.gameState.hasWon

canGuess(m) ==
  Len(m.gameState.guesses) < MAX_GUESSES /\ ~m.gameState.hasWon

\* addGuess that puts the new guess in front
addGuess_Prepend(m, guess) ==
  updateGameState(m, [guesses |-> <<guess>> \o m.gameState.guesses])

addGuess(m, guess) ==
  updateGameState(m, [guesses |-> Append(m.gameState.guesses, guess)])

\* setGameWon without the daily-mode test before the stats update
setGameWon_AnyMode(m) ==
  LET m1 == updateGameState(m, [hasWon |-> TRUE])
      guessIndex == Len(m1.gameState.guesses) - 1
      old == m1.userStats.winsInNum
      newWinsInNum ==
        IF guessIndex >= 0 /\ guessIndex < Len(old)
          THEN [old EXCEPT ![guessIndex + 1] = @ + 1]
          ELSE old
      newCurrentStreak == m1.userStats.currentStreak + 1
      newMaxStreak ==
        IF newCurrentStreak > m1.userStats.maxStreak
          THEN newCurrentStreak ELSE m1.userStats.maxStreak
  IN updateUserStats(m1,
       [numWins |-> m1.userStats.numWins + 1,
        currentStreak |-> newCurrentStreak,
        maxStreak |-> newMaxStreak,
        winsInNum |-> newWinsInNum])

\* setGameWon counting the win one guess too late
setGameWon_IndexOff(m) ==
  LET m1 == updateGameState(m, [hasWon |-> TRUE]) IN
  IF ~m1.isArchiveMode
    THEN LET guessIndex == Len(m1.gameState.guesses)
             old == m1.userStats.winsInNum
             newWinsInNum ==
               IF guessIndex >= 0 /\ guessIndex < Len(old)
                 THEN [old EXCEPT ![guessIndex + 1] = @ + 1]
                 ELSE old
             newCurrentStreak == m1.userStats.currentStreak + 1
             newMaxStreak ==
               IF newCurrentStreak > m1.userStats.maxStreak
                 THEN newCurrentStreak ELSE m1.userStats.maxStreak
         IN updateUserStats(m1,
              [numWins |-> m1.userStats.numWins + 1,
               currentStreak |-> newCurrentStreak,
               maxStreak |-> newMaxStreak,
               winsInNum |-> newWinsInNum])
    ELSE m1

\* setGameWon that leaves winsInNum
setGameWon_NoHistogram(m) ==
  LET m1 == updateGameState(m, [hasWon |-> TRUE]) IN
  IF ~m1.isArchiveMode
    THEN LET newCurrentStreak == m1.userStats.currentStreak + 1
             newMaxStreak ==
               IF newCurrentStreak > m1.userStats.maxStreak
                 THEN newCurrentStreak ELSE m1.userStats.maxStreak
         IN updateUserStats(m1,
              [numWins |-> m1.userStats.numWins + 1,
               currentStreak |-> newCurrentStreak,
               maxStreak |-> newMaxStreak])
    ELSE m1

\* setGameWon that never raises maxStreak
setGameWon_NoMax(m) ==
  LET m1 == updateGameState(m, [hasWon |-> TRUE]) IN
  IF ~m1.isArchiveMode
    THEN LET guessIndex == Len(m1.gameState.guesses) - 1
             old == m1.userStats.winsInNum
             newWinsInNum ==
               IF guessIndex >= 0 /\ guessIndex < Len(old)
                 THEN [old EXCEPT ![guessIndex + 1] = @ + 1]
                 ELSE old
         IN updateUserStats(m1,
              [numWins |-> m1.userStats.numWins + 1,
               currentStreak |-> m1.userStats.currentStreak + 1,
               winsInNum |-> newWinsInNum])
    ELSE m1

setGameWon(m) ==
  LET m1 == updateGameState(m, [hasWon |-> TRUE]) IN
  IF ~m1.isArchiveMode
    THEN LET guessIndex == Len(m1.gameState.guesses) - 1
             old == m1.userStats.winsInNum
             newWinsInNum ==
               IF guessIndex >= 0 /\ guessIndex < Len(old)
                 THEN [old EXCEPT ![guessIndex + 1] = @ + 1]
                 ELSE old
             newCurrentStreak == m1.userStats.currentStreak + 1
             newMaxStreak ==
               IF newCurrentStreak > m1.userStats.maxStreak
                 THEN newCurrentStreak ELSE m1.userStats.maxStreak
         IN updateUserStats(m1,
              [numWins |-> m1.userStats.numWins + 1,
               currentStreak |-> newCurrentStreak,
               maxStreak |-> newMaxStreak,
               winsInNum |-> newWinsInNum])
    ELSE m1

\* setGameLost that leaves the streak
setGameLost_KeepStreak(m) == m

setGameLost(m) ==
  IF ~m.isArchiveMode THEN updateUserStats(m, [currentStreak |-> 0]) ELSE m

\* processGuess on a validated input; the result says which branch ran
processGuess(m, guessValue) ==
  IF ~canGuess(m) THEN m
  ELSE LET guess == createGuessObject(guessValue, m.productPrice)
           m1 == addGuess(m, guess)
       IN IF guess.closeness = GUESS_WIN THEN setGameWon(m1)
          ELSE IF Len(m1.gameState.guesses) >= MAX_GUESSES
                 THEN setGameLost(m1)
                 ELSE m1

processGuessBranch(m, guessValue) ==
  IF ~canGuess(m) THEN "guess_rejected"
  ELSE IF createGuessObject(guessValue, m.productPrice).closeness = GUESS_WIN
         THEN "guess_won"
         ELSE IF Len(m.gameState.guesses) + 1 >= MAX_GUESSES
                THEN "guess_lost" ELSE "guess_miss"

\* validation.validateGameNumber on a number
validateGameNumber(n, maxGameNumber) == n >= 1 /\ n <= maxGameNumber

\* ------------------------------------------------------------ actions
Apply(m) ==
  /\ isArchiveMode' = m.isArchiveMode
  /\ selectedGameNumber' = m.selectedGameNumber
  /\ gameNumber' = m.gameNumber
  /\ productPrice' = m.productPrice
  /\ gameState' = m.gameState
  /\ userStats' = m.userStats
  /\ store' = m.store
  /\ wlog' = m.wlog

Days == 1..MaxDay

\* the init() calls of CostcodleApp the model follows
InitCalls == 1..MaxInitCalls

\* new CostcodleApp(): initialized = false, no init() call made, nothing set up
AppIdle ==
  [initialized |-> FALSE,
   at |-> [c \in InitCalls |-> "idle"],
   moduleSetups |-> 0, listenerSetups |-> 0, gameStarts |-> 0,
   restarts |-> 0, gameReady |-> FALSE, errorShown |-> FALSE]

NoExc == <<>>

\* a ready daily-mode page showing a won session is remembered by its game
\* number (daily pages only move forward in game numbers)
SeeWon ==
  wonDaily' = IF pc' = "ready" /\ ~isArchiveMode' /\ gameState'.hasWon
                THEN gameState'.gameNumber
                ELSE wonDaily

\* leaving a reconciled daily page of today for the archive remembers the stats
LeaveDaily ==
  exc' = IF ~isArchiveMode /\ gameState.gameNumber = today
           THEN <<[day |-> today, stats |-> userStats]>>
           ELSE exc

Init ==
  /\ today \in Days
  /\ pc = "constructed"
  /\ fetchNum = 0
  /\ isArchiveMode = FALSE
  /\ selectedGameNumber = 1
  /\ gameNumber = today
  /\ productPrice = 0
  /\ gameState = DEFAULT_GAME_STATE
  /\ userStats = DEFAULT_USER_STATS
  /\ store = [k \in StorageKeys |-> Missing]
  /\ broken = {}
  /\ op = "load"
  /\ wlog = <<>>
  /\ dailyWins = [game |-> 0, n |-> 0]
  /\ wonDaily = 0
  /\ exc = NoExc
  /\ isLoading = FALSE
  /\ gamesJson = GoodFile
  /\ lastResp = NoResp
  /\ currTime = COSTCODLE_START_DATE + (today - 1) * MS_PER_DAY + NOON
  /\ gameDate = << >>
  /\ unreadable = {}
  /\ guessObjects = GuessObjects
  /\ app = AppIdle
  /\ call = NoCall

\* midnight passes: getGameNumber() returns the next number from now on
DayChange ==
  /\ today < MaxDay
  /\ currTime' = currTime + MS_PER_DAY
  /\ today' = getGameNumber(currTime')
  /\ exc' = NoExc
  /\ UNCHANGED <<pc, fetchNum, isArchiveMode, selectedGameNumber, gameNumber,
                 productPrice, gameState, userStats, store, broken, op, wlog,
                 dailyWins, wonDaily, isLoading, gamesJson, lastResp,
                 gameDate>>
  /\ UNCHANGED <<unreadable, guessObjects, app, call>>

\* the player reloads the page (or presses Try Again): a new StateManager
Reload ==
  /\ Apply([Construct(Cur, today) EXCEPT !.wlog = <<>>])
  /\ pc' = "constructed"
  /\ fetchNum' = 0
  /\ op' = "load"
  /\ isLoading' = FALSE
  /\ lastResp' = NoResp
  /\ UNCHANGED <<today, currTime, gameDate, gamesJson, broken, dailyWins, wonDaily, exc>>
  /\ UNCHANGED <<unreadable, guessObjects, app, call>>

\* gameInitializer.startGame up to the fetch
StartGame ==
  /\ pc = "constructed"
  /\ fetchNum' = IF isArchiveMode THEN selectedGameNumber ELSE today
  /\ pc' = "fetching"
  /\ op' = "startGame"
  /\ wlog' = <<>>
  /\ isLoading' = TRUE
  /\ lastResp' = NoResp
  /\ UNCHANGED <<today, currTime, gameDate, gamesJson, isArchiveMode, selectedGameNumber, gameNumber,
                 productPrice, gameState, userStats, store, broken,
                 dailyWins, wonDaily, exc>>
  /\ UNCHANGED <<unreadable, guessObjects, app, call>>

\* which branch initializeGame takes, and for the archive whether the stored
\* session was a played session of the same game
initializeGameBranch(m) ==
  IF m.isArchiveMode
    THEN (IF m.gameState.gameNumber = m.gameNumber
             /\ Len(m.gameState.guesses) > 0
            THEN "init_archive_reentry" ELSE "init_archive")
  ELSE IF m.gameState.gameNumber # m.gameNumber THEN "init_stale"
  ELSE "init_current"

\* fetchGameData gets a valid entry: setProductData, setLoading(false), then
\* initializeGame
FetchOk ==
  /\ pc = "fetching"
  /\ \E response \in Responses(gamesJson, fetchNum) :
       /\ ~fetchGameDataThrows(response)
       /\ LET m0 == [Cur EXCEPT !.productPrice = priceNumberOf(response)]
               m1 == initializeGame(m0)
           IN /\ m1.userStats.numGames <= MaxGames
              /\ Apply(m1)
              /\ op' = initializeGameBranch(m0)
       /\ lastResp' = <<response>>
  /\ isLoading' = FALSE
  /\ pc' = "ready"
  /\ fetchNum' = 0
  /\ UNCHANGED <<today, currTime, gameDate, gamesJson, broken, dailyWins, exc>>
  /\ SeeWon
  /\ UNCHANGED <<unreadable, guessObjects, app, call>>

\* fetchGameData throws (after setLoading(false)): startGame logs and returns
FetchFail ==
  /\ pc = "fetching"
  /\ \E response \in Responses(gamesJson, fetchNum) :
       /\ fetchGameDataThrows(response)
       /\ lastResp' = <<response>>
  /\ isLoading' = FALSE
  /\ pc' = "failed"
  /\ fetchNum' = 0
  /\ op' = "fetch_failed"
  /\ wlog' = <<>>
  /\ UNCHANGED <<today, currTime, gameDate, gamesJson, isArchiveMode, selectedGameNumber, gameNumber,
                 productPrice, gameState, userStats, store, broken,
                 dailyWins, wonDaily, exc>>
  /\ UNCHANGED <<unreadable, guessObjects, app, call>>

\* the player submits a valid price
ProcessGuess ==
  /\ pc = "ready"
  /\ \E v \in GuessInputs :
       LET m1 == processGuess(Cur, v)
           won == m1.userStats.numWins - userStats.numWins
           g == gameState.gameNumber
       IN /\ m1.userStats.numWins <= MaxWins
          /\ Apply(m1)
          /\ op' = processGuessBranch(Cur, v)
          /\ dailyWins' =
               IF won <= 0 THEN dailyWins
               ELSE IF dailyWins.game # g THEN [game |-> g, n |-> 1]
               ELSE IF dailyWins.n < 2 THEN [game |-> g, n |-> dailyWins.n + 1]
               ELSE dailyWins
  /\ exc' = IF isArchiveMode THEN exc ELSE NoExc
  /\ UNCHANGED <<today, pc, fetchNum, broken, isLoading, gamesJson, lastResp,
                 currTime, gameDate>>
  /\ SeeWon
  /\ UNCHANGED <<unreadable, guessObjects, app, call>>

\* gameInitializer.toggleMode: toggleArchiveMode, then location.reload()
ToggleMode ==
  /\ pc = "ready"
  /\ Apply(Construct(toggleArchiveMode(Cur, today), today))
  /\ pc' = "constructed"
  /\ fetchNum' = 0
  /\ op' = "load"
  /\ LeaveDaily
  /\ isLoading' = FALSE
  /\ lastResp' = NoResp
  /\ UNCHANGED <<today, currTime, gameDate, gamesJson, broken, dailyWins, wonDaily>>
  /\ UNCHANGED <<unreadable, guessObjects, app, call>>

\* Previous Day / Next Day of the archive navigation; the guard is the
\* validation that lets the handler act
NavigateArchiveGame ==
  /\ pc = "ready"
  /\ isArchiveMode
  /\ \E direction \in {0 - 1, 1} :
       LET newGameNumber == selectedGameNumber + direction IN
       /\ validateGameNumber(newGameNumber, today)
       /\ Apply(Construct(setSelectedGameNumber(Cur, newGameNumber), today))
  /\ pc' = "constructed"
  /\ fetchNum' = 0
  /\ op' = "load"
  /\ isLoading' = FALSE
  /\ lastResp' = NoResp
  /\ UNCHANGED <<today, currTime, gameDate, gamesJson, broken, dailyWins, wonDaily, exc>>
  /\ UNCHANGED <<unreadable, guessObjects, app, call>>

NavigateToToday ==
  /\ pc = "ready"
  /\ isArchiveMode
  /\ Apply(Construct(setSelectedGameNumber(Cur, today), today))
  /\ pc' = "constructed"
  /\ fetchNum' = 0
  /\ op' = "load"
  /\ isLoading' = FALSE
  /\ lastResp' = NoResp
  /\ UNCHANGED <<today, currTime, gameDate, gamesJson, broken, dailyWins, wonDaily, exc>>
  /\ UNCHANGED <<unreadable, guessObjects, app, call>>

\* modalManager.selectCalendarDate
selectCalendarDate(m, n, now) ==
  LET m1 == IF ~m.isArchiveMode THEN toggleArchiveMode(m, now) ELSE m
  IN Construct(setSelectedGameNumber(m1, n), now)

SelectCalendarDate ==
  LET \* a calendar cell is clickable unless its game number is after today's
      CalendarGames == {n \in (1 - PastDays)..MaxDay : n <= today}
  IN
    /\ pc = "ready"
    /\ \E n \in CalendarGames :
         Apply(selectCalendarDate(Cur, n, today))
    /\ pc' = "constructed"
    /\ fetchNum' = 0
    /\ op' = "load"
    /\ LeaveDaily
    /\ isLoading' = FALSE
    /\ lastResp' = NoResp
    /\ UNCHANGED <<today, currTime, gameDate, gamesJson, broken, dailyWins, wonDaily>>
    /\ UNCHANGED <<unreadable, guessObjects, app, call>>

\* the Random button: floor(random() * getGameNumber()) + 1
RandomGame ==
  /\ pc = "ready"
  /\ \E n \in 1..today :
       Apply(selectCalendarDate(Cur, n, today))
  /\ pc' = "constructed"
  /\ fetchNum' = 0
  /\ op' = "load"
  /\ LeaveDaily
  /\ isLoading' = FALSE
  /\ lastResp' = NoResp
  /\ UNCHANGED <<today, currTime, gameDate, gamesJson, broken, dailyWins, wonDaily>>
  /\ UNCHANGED <<unreadable, guessObjects, app, call>>

\* the calendar's Today button
CalendarToday ==
  /\ pc = "ready"
  /\ LET m1 == IF isArchiveMode THEN toggleArchiveMode(Cur, today)
                 ELSE Cur
       IN Apply(Construct(m1, today))
  /\ pc' = "constructed"
  /\ fetchNum' = 0
  /\ op' = "load"
  /\ isLoading' = FALSE
  /\ lastResp' = NoResp
  /\ UNCHANGED <<today, currTime, gameDate, gamesJson, broken, dailyWins, wonDaily, exc>>
  /\ UNCHANGED <<unreadable, guessObjects, app, call>>

Next ==
  \/ DayChange
  \/ Reload
  \/ StartGame
  \/ FetchOk
  \/ FetchFail
  \/ ProcessGuess
  \/ ToggleMode
  \/ NavigateArchiveGame
  \/ NavigateToToday
  \/ SelectCalendarDate
  \/ RandomGame
  \/ CalendarToday

Spec == Init /\ [][Next]_vars

\* the same program over a localStorage whose setItem may throw
InitFaulty ==
  /\ today \in Days
  /\ pc = "constructed"
  /\ fetchNum = 0
  /\ isArchiveMode = FALSE
  /\ selectedGameNumber = 1
  /\ gameNumber = today
  /\ productPrice = 0
  /\ gameState = DEFAULT_GAME_STATE
  /\ userStats = DEFAULT_USER_STATS
  /\ store = [k \in StorageKeys |-> Missing]
  /\ broken \in SUBSET StorageKeys
  /\ op = "load"
  /\ wlog = <<>>
  /\ dailyWins = [game |-> 0, n |-> 0]
  /\ wonDaily = 0
  /\ exc = NoExc
  /\ isLoading = FALSE
  /\ gamesJson = GoodFile
  /\ lastResp = NoResp
  /\ currTime = COSTCODLE_START_DATE + (today - 1) * MS_PER_DAY + NOON
  /\ gameDate = << >>
  /\ unreadable = {}
  /\ guessObjects = GuessObjects
  /\ app = AppIdle
  /\ call = NoCall

SpecFaulty == InitFaulty /\ [][Next]_vars

\* the same program served a games.json with a missing or malformed entry
InitBadData ==
  /\ today \in Days
  /\ pc = "constructed"
  /\ fetchNum = 0
  /\ isArchiveMode = FALSE
  /\ selectedGameNumber = 1
  /\ gameNumber = today
  /\ productPrice = 0
  /\ gameState = DEFAULT_GAME_STATE
  /\ userStats = DEFAULT_USER_STATS
  /\ store = [k \in StorageKeys |-> Missing]
  /\ broken = {}
  /\ op = "load"
  /\ wlog = <<>>
  /\ dailyWins = [game |-> 0, n |-> 0]
  /\ wonDaily = 0
  /\ exc = NoExc
  /\ isLoading = FALSE
  /\ gamesJson \in BadFiles
  /\ lastResp = NoResp
  /\ currTime = COSTCODLE_START_DATE + (today - 1) * MS_PER_DAY + NOON
  /\ gameDate = << >>
  /\ unreadable = {}
  /\ guessObjects = GuessObjects
  /\ app = AppIdle
  /\ call = NoCall

SpecBadData == InitBadData /\ [][Next]_vars

\* ------------------------------------------------------------ the API
\* stateManager is exported: its methods called one by one, without the
\* gates of gameMechanics.processGuess
ApiFrame ==
  UNCHANGED <<today, pc, fetchNum, broken, dailyWins, wonDaily, exc,
              isLoading, gamesJson, lastResp, currTime, gameDate,
              unreadable, guessObjects, app, call>>

ApiAddGuess ==
  /\ Len(gameState.guesses) < MaxApiGuesses
  /\ \E v \in GuessInputs :
       Apply(addGuess(Cur, createGuessObject(v, productPrice)))
  /\ op' = "addGuess"
  /\ ApiFrame

ApiSetGameWon ==
  /\ LET m1 == setGameWon(Cur) IN
       /\ m1.userStats.numWins <= MaxWins
       /\ Apply(m1)
  /\ op' = "setGameWon"
  /\ ApiFrame

ApiSetGameLost ==
  /\ Apply(setGameLost(Cur))
  /\ op' = "setGameLost"
  /\ ApiFrame

ApiInitializeGame ==
  /\ LET m1 == initializeGame(Cur) IN
       /\ m1.userStats.numGames <= MaxGames
       /\ Apply(m1)
  /\ op' = "initializeGame"
  /\ ApiFrame

NextApi ==
  \/ ApiAddGuess
  \/ ApiSetGameWon
  \/ ApiSetGameLost
  \/ ApiInitializeGame

SpecApi == Init /\ [][NextApi]_vars

\* ------------------------------------------------------------ the clock

Instants ==
  LET \* dateUtils on its own: the clock is read at sampled instants, today is what
      \* getGameNumber() returns at that instant, and the date label of that game
      \* is rendered
      TimesOfDay == {0, 1, NOON, MS_PER_DAY - 1}
  IN
    {COSTCODLE_START_DATE + d * MS_PER_DAY + x :
       d \in 0..MaxDateDay, x \in TimesOfDay}

DateFrame ==
  UNCHANGED <<pc, fetchNum, isArchiveMode, selectedGameNumber, gameNumber,
              productPrice, gameState, userStats, store, broken, wlog,
              dailyWins, wonDaily, exc, isLoading, gamesJson, lastResp,
              unreadable, guessObjects, app, call>>

InitDate ==
  /\ currTime \in Instants
  /\ today = getGameNumber(currTime)
  /\ pc = "constructed"
  /\ fetchNum = 0
  /\ isArchiveMode = FALSE
  /\ selectedGameNumber = 1
  /\ gameNumber = today
  /\ productPrice = 0
  /\ gameState = DEFAULT_GAME_STATE
  /\ userStats = DEFAULT_USER_STATS
  /\ store = [k \in StorageKeys |-> Missing]
  /\ broken = {}
  /\ op = "load"
  /\ wlog = <<>>
  /\ dailyWins = [game |-> 0, n |-> 0]
  /\ wonDaily = 0
  /\ exc = NoExc
  /\ isLoading = FALSE
  /\ gamesJson = GoodFile
  /\ lastResp = NoResp
  /\ gameDate = << >>
  /\ unreadable = {}
  /\ guessObjects = << >>
  /\ app = AppIdle
  /\ call = NoCall

\* time passes to a later instant
ClockTick ==
  /\ \E t \in Instants : t > currTime /\ currTime' = t
  /\ today' = getGameNumber(currTime')
  /\ gameDate' = << >>
  /\ op' = "tick"
  /\ DateFrame

\* the label of today's game is rendered
ShowGameDate ==
  /\ gameDate = << >>
  /\ gameDate' = <<getDateForGameNumber(today)>>
  /\ op' = "getDateForGameNumber"
  /\ UNCHANGED <<today, currTime>>
  /\ DateFrame

\* modalManager.dateToGameNumber of the instant t
dateToGameNumber(t) == Ceil(t - COSTCODLE_START_DATE, MS_PER_DAY)

\* renderCalendarMonth gives a cell a click listener unless its game number
\* is after today's; the click runs selectCalendarDate, which reloads
ClickCalendarCell ==
  LET \* new Date(year, month, day) of the calendar cell d days after the start
      \* date: the day, and its local midnight
      CellDay(d) == NormalizeDate(START_YEAR, START_MONTH, START_DAY + d)
      CellMidnight(d) == COSTCODLE_START_DATE + d * MS_PER_DAY
  IN
    /\ \E d \in 0..(MaxDateDay + 1) :
         LET cellGame == dateToGameNumber(CellMidnight(d)) IN
         /\ ~(cellGame > getGameNumber(currTime))
         /\ Apply(selectCalendarDate(Cur, cellGame, getGameNumber(currTime)))
         /\ gameDate' = <<toLocaleDateString(CellDay(d))>>
    /\ op' = "selectCalendarDate"
    /\ UNCHANGED <<today, currTime, pc, fetchNum, broken, dailyWins, wonDaily,
                   exc, isLoading, gamesJson, lastResp, unreadable, guessObjects, app, call>>

NextDate ==
  \/ ClockTick
  \/ ShowGameDate
  \/ ClickCalendarCell

SpecDate == InitDate /\ [][NextDate]_vars

\* ------------------------------------------------------------ utilities
\* validation called on its own with a text or a value
UtilFrame ==
  UNCHANGED <<today, pc, fetchNum, isArchiveMode, selectedGameNumber,
              gameNumber, productPrice, gameState, userStats, store, broken,
              wlog, dailyWins, wonDaily, exc, isLoading, gamesJson, lastResp,
              currTime, gameDate, unreadable, guessObjects, app>>

Texts(alphabet, maxLen) ==
  UNION {[1..n -> alphabet] : n \in 0..maxLen}

PriceInputs ==
  LET \* JavaScript values of an entry's fields: a string is a sequence of
      \* one-character strings
      JsUndefined == [t |-> "undefined", s |-> << >>, n |-> 0]
  IN
    {JsUndefined, JsNumber(5)}
      \cup {JsString(x) :
              x \in Texts({"0", "1", "9", ".", "$", ",", " ", "-"},
                          MaxPriceTextLen)}

GameNumberInputs ==
  LET \* a number argument of validateGameNumber, in tenths (25 is 2.5)
      Tenths(x) == [t |-> "number", s |-> << >>, n |-> x]
  IN
    {Tenths(x) : x \in {0 - 10, 0, 10, 20, 25, 30, 40}}
      \cup {JsString(x) :
              x \in Texts({"2", "5", ".", "a", " ", "-"}, MaxNumberTextLen)}

\* a utility is about to be called with an argument
InitUtil ==
  /\ today = 1
  /\ pc = "constructed"
  /\ fetchNum = 0
  /\ isArchiveMode = FALSE
  /\ selectedGameNumber = 1
  /\ gameNumber = today
  /\ productPrice = 0
  /\ gameState = DEFAULT_GAME_STATE
  /\ userStats = DEFAULT_USER_STATS
  /\ store = [k \in StorageKeys |-> Missing]
  /\ broken = {}
  /\ op = "load"
  /\ wlog = <<>>
  /\ dailyWins = [game |-> 0, n |-> 0]
  /\ wonDaily = 0
  /\ exc = NoExc
  /\ isLoading = FALSE
  /\ gamesJson = GoodFile
  /\ lastResp = NoResp
  /\ currTime = COSTCODLE_START_DATE + (today - 1) * MS_PER_DAY + NOON
  /\ gameDate = << >>
  /\ unreadable = {}
  /\ guessObjects = << >>
  /\ app = AppIdle
  /\ call \in
       {[fn |-> "validatePriceInput", arg |-> <<input>>, ret |-> << >>,
         done |-> FALSE] : input \in PriceInputs}
       \cup
       {[fn |-> "validateGameNumber", arg |-> <<requested, maxGameNumber>>,
         ret |-> << >>, done |-> FALSE] :
          requested \in GameNumberInputs, maxGameNumber \in {1, 3}}

ValidatePriceInput ==
  /\ call.fn = "validatePriceInput" /\ ~call.done
  /\ call' = [call EXCEPT !.ret = validatePriceInput(call.arg[1]),
                          !.done = TRUE]
  /\ op' = "validatePriceInput"
  /\ UtilFrame

ValidateGameNumber ==
  /\ call.fn = "validateGameNumber" /\ ~call.done
  /\ call' = [call EXCEPT
                !.ret = validateGameNumberResult(call.arg[1], call.arg[2]),
                !.done = TRUE]
  /\ op' = "validateGameNumber"
  /\ UtilFrame

NextUtil ==
  \/ ValidatePriceInput
  \/ ValidateGameNumber

SpecUtil == InitUtil /\ [][NextUtil]_vars

\* ------------------------------------------------------------ the store
\* storage and StateManager over a localStorage that may hold texts that are
\* not JSON, and whose getItem or setItem may throw for every key
InitStore ==
  /\ today = 1
  /\ pc = "constructed"
  /\ fetchNum = 0
  /\ isArchiveMode = FALSE
  /\ selectedGameNumber = 1
  /\ gameNumber = today
  /\ productPrice = 0
  /\ gameState = DEFAULT_GAME_STATE
  /\ userStats = DEFAULT_USER_STATS
  /\ store \in [StorageKeys -> {Missing, Malformed}]
  /\ broken \in {{}, StorageKeys}
  /\ op = "load"
  /\ wlog = <<>>
  /\ dailyWins = [game |-> 0, n |-> 0]
  /\ wonDaily = 0
  /\ exc = NoExc
  /\ isLoading = FALSE
  /\ gamesJson = GoodFile
  /\ lastResp = NoResp
  /\ currTime = COSTCODLE_START_DATE + (today - 1) * MS_PER_DAY + NOON
  /\ gameDate = << >>
  /\ unreadable \in {{}, StorageKeys}
  /\ guessObjects = << >>
  /\ app = AppIdle
  /\ call = NoCall

\* the default loadFromStorage passes for a key
DefaultOf(key) ==
  CASE key = KEY_ARCHIVE_MODE -> FALSE
    [] key = KEY_SELECTED_GAME_NUMBER -> 1
    [] key = KEY_GAME_STATE -> DEFAULT_GAME_STATE
    [] key = KEY_USER_STATS -> DEFAULT_USER_STATS

StorageGet ==
  /\ \E key \in StorageKeys :
       call' = [fn |-> "storage.get", arg |-> <<key>>,
                ret |-> <<storage_get(Cur, key, DefaultOf(key))>>,
                done |-> TRUE]
  /\ op' = "storage.get"
  /\ UtilFrame

StorageSet ==
  LET \* the values storage.set is called with for the two plain keys
      PlainValues(key) ==
        IF key = KEY_ARCHIVE_MODE THEN BOOLEAN ELSE 1..2
  IN
    /\ \E key \in {KEY_ARCHIVE_MODE, KEY_SELECTED_GAME_NUMBER} :
         \E value \in PlainValues(key) :
           LET m1 == storage_set(Cur, key, value) IN
           /\ store' = m1.store
           /\ wlog' = m1.wlog
           /\ call' = [fn |-> "storage.set", arg |-> <<key, value>>,
                       ret |-> <<m1.wlog[1][2]>>, done |-> TRUE]
    /\ op' = "storage.set"
    /\ UNCHANGED <<today, pc, fetchNum, isArchiveMode, selectedGameNumber,
                   gameNumber, productPrice, gameState, userStats, broken,
                   dailyWins, wonDaily, exc, isLoading, gamesJson, lastResp,
                   currTime, gameDate, unreadable, guessObjects, app>>

NextStore ==
  \/ Reload
  \/ ApiInitializeGame
  \/ ApiSetGameWon
  \/ ApiSetGameLost
  \/ StorageGet
  \/ StorageSet

SpecStore == InitStore /\ [][NextStore]_vars

\* ------------------------------------------------------------ the application
\* CostcodleApp.init, one step per await; init() is called when the script
\* loads and can be called again through window.CostcodleApp
AppFrame ==
  UNCHANGED <<today, pc, fetchNum, isArchiveMode, selectedGameNumber,
              gameNumber, productPrice, gameState, userStats, store, broken,
              wlog, dailyWins, wonDaily, exc, isLoading, gamesJson, lastResp,
              currTime, gameDate, unreadable, guessObjects, call>>

\* init() up to await waitForDOM(): the initialized test is made here only
AppInit(c) ==
  /\ app.at[c] = "idle"
  /\ app' = [app EXCEPT !.at[c] = IF app.initialized THEN "returned"
                                  ELSE "waitForDOM"]
  /\ op' = "init"
  /\ AppFrame

\* the DOM is ready: initializeModules runs keyboard.init and
\* domCache.refresh, and awaits registerServiceWorker
DomReady(c) ==
  /\ app.at[c] = "waitForDOM"
  /\ app' = [app EXCEPT !.at[c] = "registerServiceWorker",
                        !.moduleSetups = @ + 1]
  /\ op' = "initializeModules"
  /\ AppFrame

\* registerServiceWorker settles (it catches its own errors): then
\* setupStateListeners, setupGlobalListeners, and app.startGame, which runs
\* gameInitializer.startGame up to the fetch
ServiceWorkerSettled(c) ==
  /\ app.at[c] = "registerServiceWorker"
  /\ app' = [app EXCEPT !.at[c] = "fetchGameData",
                        !.listenerSetups = @ + 1,
                        !.gameStarts = @ + 1]
  /\ fetchNum' = IF isArchiveMode THEN selectedGameNumber ELSE today
  /\ pc' = "fetching"
  /\ op' = "startGame"
  /\ wlog' = <<>>
  /\ isLoading' = TRUE
  /\ lastResp' = NoResp
  /\ UNCHANGED <<today, currTime, gameDate, gamesJson, isArchiveMode,
                 selectedGameNumber, gameNumber, productPrice, gameState,
                 userStats, store, broken, dailyWins, wonDaily, exc,
                 unreadable, guessObjects, call>>

\* the fetch gives a valid entry: setProductData, initializeGame, the game
\* is displayed, startGame returns and init sets initialized
AppFetchOk(c) ==
  /\ app.at[c] = "fetchGameData"
  /\ \E response \in Responses(gamesJson, fetchNum) :
       /\ ~fetchGameDataThrows(response)
       /\ LET m0 == [Cur EXCEPT !.productPrice = priceNumberOf(response)]
               m1 == initializeGame(m0)
           IN /\ m1.userStats.numGames <= MaxGames
              /\ Apply(m1)
              /\ op' = initializeGameBranch(m0)
       /\ lastResp' = <<response>>
  /\ app' = [app EXCEPT !.at[c] = "returned", !.gameReady = TRUE,
                        !.initialized = TRUE]
  /\ isLoading' = FALSE
  /\ pc' = "ready"
  /\ UNCHANGED <<today, currTime, gameDate, gamesJson, broken, dailyWins,
                 exc, fetchNum, unreadable, guessObjects, call>>
  /\ SeeWon

\* fetchGameData throws: gameInitializer.startGame catches and logs the
\* error, so app.startGame returns normally and init sets initialized
AppFetchFail(c) ==
  /\ app.at[c] = "fetchGameData"
  /\ \E response \in Responses(gamesJson, fetchNum) :
       /\ fetchGameDataThrows(response)
       /\ lastResp' = <<response>>
  /\ app' = [app EXCEPT !.at[c] = "returned", !.initialized = TRUE]
  /\ isLoading' = FALSE
  /\ pc' = "failed"
  /\ op' = "fetch_failed"
  /\ wlog' = <<>>
  /\ UNCHANGED <<today, currTime, gameDate, gamesJson, isArchiveMode,
                 selectedGameNumber, gameNumber, productPrice, gameState,
                 userStats, store, broken, dailyWins, wonDaily, exc,
                 fetchNum, unreadable, guessObjects, call>>

\* restart(): initialized = false, then init() up to await waitForDOM()
Restart(c) ==
  /\ app.at[c] = "idle"
  /\ app' = [app EXCEPT !.initialized = FALSE, !.at[c] = "waitForDOM",
                        !.restarts = @ + 1]
  /\ op' = "restart"
  /\ AppFrame

NextApp ==
  \E c \in InitCalls :
    \/ AppInit(c)
    \/ DomReady(c)
    \/ ServiceWorkerSettled(c)
    \/ AppFetchOk(c)
    \/ AppFetchFail(c)
    \/ Restart(c)

SpecApp == Init /\ [][NextApp]_vars

\* ------------------------------------------------------------ closeness

CentPairs ==
  LET \* createGuessObject applied once to a guess and a product price given in
      \* cents: the guesses around each threshold of each price
      ThresholdGuesses(target) ==
        {0, target}
          \cup {(target * k) \div 100 + d : k \in {100 - NEAR_THRESHOLD_PERCENT,
                                                   100 - WIN_THRESHOLD_PERCENT,
                                                   100 + WIN_THRESHOLD_PERCENT,
                                                   100 + NEAR_THRESHOLD_PERCENT},
                                            d \in {0, 1}}
  IN
    UNION {{<<guess, target>> : guess \in ThresholdGuesses(target)} :
             target \in 0..MaxTargetCents}

InitFloat ==
  /\ today = 1
  /\ pc = "constructed"
  /\ fetchNum = 0
  /\ isArchiveMode = FALSE
  /\ selectedGameNumber = 1
  /\ gameNumber = today
  /\ productPrice = 0
  /\ gameState = DEFAULT_GAME_STATE
  /\ userStats = DEFAULT_USER_STATS
  /\ store = [k \in StorageKeys |-> Missing]
  /\ broken = {}
  /\ op = "load"
  /\ wlog = <<>>
  /\ dailyWins = [game |-> 0, n |-> 0]
  /\ wonDaily = 0
  /\ exc = NoExc
  /\ isLoading = FALSE
  /\ gamesJson = GoodFile
  /\ lastResp = NoResp
  /\ currTime = COSTCODLE_START_DATE + (today - 1) * MS_PER_DAY + NOON
  /\ gameDate = << >>
  /\ unreadable = {}
  /\ guessObjects = << >>
  /\ app = AppIdle
  /\ call \in
       {[fn |-> "createGuessObject", arg |-> pair, ret |-> << >>,
         done |-> FALSE] : pair \in CentPairs}

CreateGuessObject ==
  /\ call.fn = "createGuessObject" /\ ~call.done
  /\ call' = [call EXCEPT
                !.ret = <<createGuessObjectOf(call.arg[1],
                                              DecimalNumber(call.arg[1]),
                                              DecimalNumber(call.arg[2]))>>,
                !.done = TRUE]
  /\ op' = "createGuessObject"
  /\ UtilFrame

NextFloat == CreateGuessObject

SpecFloat == InitFloat /\ [][NextFloat]_vars

TypeOK ==
  /\ today \in Days
  /\ pc \in {"constructed", "fetching", "ready", "failed"}
  /\ isArchiveMode \in BOOLEAN
  /\ isLoading \in BOOLEAN
  /\ Len(gameState.guesses) \in 0..MAX_GUESSES

\* ------------------------------------------------------------ the steps
\* the step in which initializeGame runs (the end of a successful startGame)
InitializeGameStep == pc = "fetching" /\ pc' = "ready"

DailyStale == ~isArchiveMode /\ gameState.gameNumber # gameNumber

\* ------------------------------------------------------------ claims

\* C1: in every reachable state userStats.numWins <= userStats.numGames.
\* Stated as claimed; the code breaks it by replaying today's puzzle after an
\* archive visit.
C1_WinsAtMostGames == userStats.numWins <= userStats.numGames

\* C2: an archive excursion that starts on a reconciled daily page and ends
\* back in daily mode on the same day leaves userStats as they were when daily
\* mode was left (the run without the excursion only reloads, which changes
\* nothing on a current session). Stated as claimed; the code breaks it.
C2_ExcursionKeepsStats ==
  (exc # NoExc /\ pc = "ready" /\ ~isArchiveMode /\ exc[1].day = today)
    => userStats = exc[1].stats

\* C3: while isArchiveMode is true no handler changes userStats, in memory or
\* under the 'stats' key, and none writes that key.
C3_ArchiveKeepsStats ==
  [][(isArchiveMode /\ isArchiveMode')
       => /\ userStats' = userStats
          /\ store'[KEY_USER_STATS] = store[KEY_USER_STATS]
          /\ \A i \in 1..Len(wlog') : wlog'[i][1] # KEY_USER_STATS]_vars

\* C3 witness: an archived game was won (and the stats key was not written)
C3_Witness ==
  isArchiveMode /\ pc = "ready" /\ op = "guess_won" /\ gameState.hasWon
    /\ userStats.numGames > 0

\* C4: in daily mode initializeGame on a current session changes neither the
\* session nor the stats and writes nothing.
C4_CurrentReconcileNoOp ==
  [][(InitializeGameStep /\ ~isArchiveMode
        /\ gameState.gameNumber = gameNumber)
       => /\ gameState' = gameState
          /\ userStats' = userStats
          /\ store' = store
          /\ wlog' = <<>>]_vars

\* C4 witness: a reload resumed today's session with its partial guesses
C4_Witness ==
  /\ pc = "ready" /\ op = "init_current" /\ ~isArchiveMode
  /\ Len(gameState.guesses) > 0 /\ ~gameState.hasWon
  /\ userStats.numGames = 1

\* C5: once a ready daily page showed game p as won, every later ready daily
\* page of game p shows it won. Stated as claimed; the code breaks it.
C5_WonStaysWon ==
  (pc = "ready" /\ ~isArchiveMode /\ gameState.gameNumber = wonDaily)
    => gameState.hasWon

\* C6: a daily puzzle adds at most one win (numWins, currentStreak) to the
\* stats. Stated as claimed; the code breaks it.
C6_OneWinPerDailyPuzzle == dailyWins.n <= 1

\* C7: a stale daily reconcile sets currentStreak to 0 exactly when the stored
\* session is not won and not the unset sentinel, and otherwise leaves it.
\* Stated as claimed; the code tests hasWon only.
C7_StreakResetOnlyAfterAbandon ==
  [][(InitializeGameStep /\ DailyStale)
       => userStats'.currentStreak =
            IF gameState.hasWon = FALSE
                 /\ gameState.gameNumber # UNSET_GAME_NUMBER
              THEN 0 ELSE userStats.currentStreak]_vars

\* C8: a stale daily reconcile starts a fresh session for the requested game,
\* adds exactly one game, keeps numWins, winsInNum and maxStreak, and stores
\* both the session and the stats.
C8_StaleReconcileResets ==
  [][(InitializeGameStep /\ DailyStale)
       => /\ gameState' =
               [gameNumber |-> gameNumber, guesses |-> <<>>, hasWon |-> FALSE]
          /\ userStats'.numGames = userStats.numGames + 1
          /\ userStats'.numWins = userStats.numWins
          /\ userStats'.winsInNum = userStats.winsInNum
          /\ userStats'.maxStreak = userStats.maxStreak
          /\ store'[KEY_GAME_STATE] = <<gameState'>>
          /\ store'[KEY_USER_STATS] = <<userStats'>>]_vars

\* C8 witness: a second daily game was started after a day change
C8_Witness ==
  LET StatsWritten == \E i \in 1..Len(wlog) : wlog[i][1] = KEY_USER_STATS
  IN
    /\ pc = "ready" /\ op = "init_stale" /\ ~isArchiveMode
    /\ userStats.numGames = 2 /\ gameState.gameNumber = 2
    /\ StatsWritten

\* C9: in archive mode every initializeGame yields the fresh session of the
\* selected game, whatever session was stored.
C9_ArchiveAlwaysFresh ==
  [][(InitializeGameStep /\ isArchiveMode)
       => gameState' = [gameNumber |-> selectedGameNumber,
                        guesses |-> <<>>, hasWon |-> FALSE]]_vars

\* C9 witness: the archived game that was being played was entered again
C9_Witness ==
  /\ pc = "ready" /\ op = "init_archive_reentry" /\ isArchiveMode
  /\ gameState.guesses = <<>>

\* C10: a reconcile or a recorded guess leaves the stored (session, stats)
\* pair as it was or moves it to the full state after the handler. Stated as
\* claimed; the code writes key by key and ignores a failed write.
C10_PersistAtomic ==
  [][(pc' = "ready")
       => \/ /\ store'[KEY_GAME_STATE] = store[KEY_GAME_STATE]
             /\ store'[KEY_USER_STATS] = store[KEY_USER_STATS]
          \/ /\ store'[KEY_GAME_STATE] = <<gameState'>>
             /\ store'[KEY_USER_STATS] = <<userStats'>>]_vars

\* ------------------------------------------------------------ guesses
\* a step of processGuess that accepted a guess
AcceptStep ==
  /\ pc = "ready" /\ pc' = "ready"
  /\ Len(gameState'.guesses) = Len(gameState.guesses) + 1

LastGuess(gs) == gs.guesses[Len(gs.guesses)]

\* C11: an accepted winning guess sets hasWon; in daily mode only it adds one
\* to numWins, to winsInNum[k] for the k guesses made and to currentStreak,
\* sets maxStreak to the larger of itself and the new streak, and leaves
\* numGames and the other winsInNum entries.
C11_WinUpdatesStats ==
  [][LET MaxOf(a, b) == IF a > b THEN a ELSE b IN
     (AcceptStep /\ LastGuess(gameState').closeness = GUESS_WIN)
         => /\ gameState'.hasWon
            /\ IF isArchiveMode
                 THEN userStats' = userStats
                 ELSE LET k == Len(gameState'.guesses) IN
                      /\ userStats'.numWins = userStats.numWins + 1
                      /\ userStats'.winsInNum =
                           [i \in 1..MAX_GUESSES |->
                              IF i = k THEN userStats.winsInNum[i] + 1
                              ELSE userStats.winsInNum[i]]
                      /\ userStats'.currentStreak = userStats.currentStreak + 1
                      /\ userStats'.maxStreak =
                           MaxOf(userStats.maxStreak, userStats.currentStreak + 1)
                      /\ userStats'.numGames = userStats.numGames]_vars

\* C11 witness: a daily game won with the third guess
C11_Witness ==
  /\ pc = "ready" /\ ~isArchiveMode /\ op = "guess_won"
  /\ Len(gameState.guesses) = 3 /\ gameState.hasWon
  /\ userStats.winsInNum[3] = 1 /\ userStats.numWins = 1

\* C12: an accepted non-winning guess leaves hasWon false; the sixth one, in
\* daily mode, sets currentStreak to 0 and changes no other stat; any other
\* non-winning guess changes no stat.
C12_LossResetsStreakOnly ==
  [][(AcceptStep /\ LastGuess(gameState').closeness # GUESS_WIN)
       => /\ ~gameState'.hasWon
          /\ IF Len(gameState'.guesses) = MAX_GUESSES /\ ~isArchiveMode
               THEN userStats' = [userStats EXCEPT !.currentStreak = 0]
               ELSE userStats' = userStats]_vars

\* C12 witness: a daily game lost while a streak was running
C12_Witness ==
  /\ pc = "ready" /\ ~isArchiveMode /\ op = "guess_lost"
  /\ Len(gameState.guesses) = MAX_GUESSES /\ ~gameState.hasWon
  /\ userStats.currentStreak = 0 /\ userStats.maxStreak = 1

\* C14: the session never holds more than MAX_GUESSES guesses.
C14_GuessesBounded == Len(gameState.guesses) <= MAX_GUESSES

\* C14 witness: a session filled to MAX_GUESSES by a guess submission
C14_Witness ==
  /\ pc = "ready" /\ op = "guess_lost"
  /\ Len(gameState.guesses) = MAX_GUESSES

\* C15: a step leaves the guesses, or appends the one new guess at the end,
\* or is a reset by initializeGame.
C15_AppendOnly ==
  [][\/ gameState'.guesses = gameState.guesses
     \/ /\ pc = "ready" /\ pc' = "ready"
        /\ \E v \in GuessInputs :
             gameState'.guesses =
               Append(gameState.guesses, createGuessObject(v, productPrice))
     \/ /\ InitializeGameStep
        /\ gameState'.guesses = << >>]_vars

\* C15 witness: a second, different guess was appended behind the first
C15_Witness ==
  /\ pc = "ready" /\ op = "guess_won"
  /\ Len(gameState.guesses) = 2
  /\ gameState.guesses[1] # gameState.guesses[2]
  /\ gameState.guesses[2].closeness = GUESS_WIN

\* C16: the current streak never exceeds the longest streak.
C16_StreakAtMostMax == userStats.currentStreak <= userStats.maxStreak

\* C16 witness: a second daily win in a row raised both streaks to 2
C16_Witness ==
  /\ op = "guess_won" /\ ~isArchiveMode
  /\ userStats.currentStreak = 2 /\ userStats.maxStreak = 2

\* C17: in daily mode an accepted guess is recorded in a session whose
\* gameNumber is the puzzle index of the day on which the guess is made.
C17_DailyGuessInTodaysSession ==
  [][(AcceptStep /\ ~isArchiveMode) => gameState'.gameNumber = today]_vars

\* ------------------------------------------------------------ fetch

\* C18: when the fetch of the puzzle data ends in a failure, initializeGame
\* is not run: the session, the stats, localStorage and the product price
\* stay as they were, nothing is written, and isLoading ends false.
C18_FailedFetchStartsNothing ==
  [][LET \* the failures of the puzzle data: HTTP error, missing entry, missing
      \* field, price not '$'-prefixed, price not numeric, price not positive
      DataFailure(r) ==
        IF ~r.ok THEN TRUE
        ELSE IF r.entry = << >> THEN TRUE
        ELSE LET e == r.entry[1] IN
          IF \E f \in {e.name, e.price, e.image} :
               f.t = "undefined" \/ (f.t = "string" /\ f.s = << >>)
                 \/ (f.t = "number" /\ f.n = 0)
            THEN TRUE
          ELSE IF e.price.t # "string" THEN TRUE
          ELSE IF Head(e.price.s) # "$" THEN TRUE
          ELSE IF ~AllDigits(Tail(e.price.s)) THEN TRUE
          ELSE DigitsValue(Tail(e.price.s)) <= 0
  IN
      (pc = "fetching" /\ pc' # "fetching" /\ lastResp' # NoResp
          /\ DataFailure(lastResp'[1]))
         => /\ pc' = "failed"
            /\ gameState' = gameState
            /\ userStats' = userStats
            /\ store' = store
            /\ wlog' = << >>
            /\ productPrice' = productPrice
            /\ isLoading' = FALSE]_vars

\* C18 witness: after a played game, a fetch got an entry priced "$0" and
\* the page stands failed with the session and the stats it had
C18_Witness ==
  /\ pc = "failed" /\ op = "fetch_failed" /\ ~isLoading
  /\ lastResp # NoResp
  /\ lastResp[1].ok /\ lastResp[1].entry # << >>
  /\ lastResp[1].entry[1].price = JsString(<<"$", "0">>)
  /\ Len(gameState.guesses) > 0
  /\ userStats.numGames > 0

\* C13: StateManager.addGuess called on a complete session (won, or with
\* MAX_GUESSES guesses) appends nothing and leaves the session and the stats.
\* Stated as claimed; addGuess has no such test.
C13_AddGuessRejectsWhenComplete ==
  [][(op' = "addGuess"
        /\ (gameState.hasWon \/ Len(gameState.guesses) >= MAX_GUESSES))
       => /\ gameState' = gameState
          /\ userStats' = userStats]_vars

\* ------------------------------------------------------------ dates
\* C19: at every instant of the calendar day d days after the start date,
\* midnight included, getGameNumber() is d + 1. Stated as claimed; at
\* midnight exactly Math.ceil gives d.
C19_GameNumberIsDayPlusOne ==
  today = ((currTime - COSTCODLE_START_DATE) \div MS_PER_DAY) + 1

\* C20: the date rendered for the current game number is the calendar day of
\* the current instant. Stated as claimed; it fails at midnight with C19.
C20_DateRoundTrip ==
  LET RECURSIVE DayAfter(_, _)
      DayAfter(date, n) ==
        LET \* the calendar: the day after the date
            NextDay ==
              IF date.day < DaysIn(date.year, date.month)
                THEN [date EXCEPT !.day = @ + 1]
              ELSE IF date.month < 12
                THEN [year |-> date.year, month |-> date.month + 1, day |-> 1]
              ELSE [year |-> date.year + 1, month |-> 1, day |-> 1]
        IN
          IF n = 0 THEN date ELSE DayAfter(NextDay, n - 1)
  IN
    LET \* the local calendar day on which the instant t >= 0 falls
        CalendarDayOf(t) ==
          DayAfter([year |-> START_YEAR, month |-> START_MONTH, day |-> START_DAY],
                   t \div MS_PER_DAY)
    IN
      gameDate # << >> => gameDate[1] = toLocaleDateString(CalendarDayOf(currTime))

\* ------------------------------------------------------------ selection
\* C26: the selected archive game is between 1 and today's game, and the
\* stored selection is the number in memory. Stated as claimed; a calendar
\* cell before the first game can be clicked, and a stored 0 reloads as 1.
C26_SelectionInRange ==
  /\ 1 <= selectedGameNumber /\ selectedGameNumber <= today
  /\ store[KEY_SELECTED_GAME_NUMBER] # Missing
       => store[KEY_SELECTED_GAME_NUMBER][1] = selectedGameNumber

\* ------------------------------------------------------------ stats

\* C27: winsInNum has MAX_GUESSES entries and they add up to numWins.
C27_HistogramSumsToWins ==
  LET RECURSIVE SumSeq(_)
      SumSeq(q) == IF q = << >> THEN 0 ELSE Head(q) + SumSeq(Tail(q))
  IN
    /\ Len(userStats.winsInNum) = MAX_GUESSES
    /\ SumSeq(userStats.winsInNum) = userStats.numWins

\* C27 witness: two daily wins, with one guess and with three
C27_Witness ==
  /\ userStats.numWins = 2
  /\ userStats.winsInNum[1] = 1 /\ userStats.winsInNum[3] = 1

\* ------------------------------------------------------------ session

\* C28: the session in memory and the session under the 'state' key are won
\* exactly when their last guess is a win, and no earlier guess is a win.
C28_SessionWellFormed ==
  LET WellFormed(gs) ==
        /\ gs.hasWon <=>
             (Len(gs.guesses) > 0 /\ LastGuess(gs).closeness = GUESS_WIN)
        /\ \A i \in 1..(Len(gs.guesses) - 1) : gs.guesses[i].closeness # GUESS_WIN
  IN
    /\ WellFormed(gameState)
    /\ store[KEY_GAME_STATE] # Missing => WellFormed(store[KEY_GAME_STATE][1])

\* C28 witness: a page reloaded on a session won with its second guess
C28_Witness ==
  /\ pc = "constructed" /\ op = "load"
  /\ gameState.hasWon /\ Len(gameState.guesses) = 2
  /\ store[KEY_GAME_STATE] = <<gameState>>

\* ------------------------------------------------------------ validation

\* C22: validatePriceInput accepts exactly the cleaned decimal texts with a
\* value in [0.01, 10000] and at most 2 decimals, returns the value and its
\* 2-decimal form, and reports the first failing check in the order
\* InvalidInput, NotANumber, OutOfRange, TooManyDecimals.
C22_PriceInputContract ==
  LET RECURSIVE Pow10(_)
      Pow10(k) == IF k = 0 THEN 1 ELSE 10 * Pow10(k - 1)
      \* a cleaned text read as a decimal number: at most one '.', digits around
      \* it, at least one digit
      IsDecimalText(x) ==
        /\ Cardinality({i \in 1..Len(x) : x[i] = "."}) <= 1
        /\ \A i \in 1..Len(x) : x[i] = "." \/ IsDigit(x[i])
      HasDigit(x) == \E i \in 1..Len(x) : IsDigit(x[i])
      \* the position of the point, or one past the end
      PointAt(x) ==
        IF \E i \in 1..Len(x) : x[i] = "."
          THEN CHOOSE i \in 1..Len(x) : x[i] = "."
          ELSE Len(x) + 1
      \* the number of digits after the point
      Scale(x) == IF PointAt(x) > Len(x) THEN 0 ELSE Len(x) - PointAt(x)
      \* the text without its point, as a natural number: the value times 10^Scale
      Scaled(x) ==
        DigitsValue(SubSeq(x, 1, PointAt(x) - 1) \o SubSeq(x, PointAt(x) + 1, Len(x)))
      Cleaned(x) == SelectSeq(x, LAMBDA ch : ch \notin {"$", ",", " "})
      \* the result the contract of validatePriceInput fixes for an input
      ExpectedPrice(input) ==
        IF input.t # "string" \/ input.s = << >> THEN Invalid(INVALID_INPUT)
        ELSE LET x == Cleaned(input.s) IN
          IF ~IsDecimalText(x) THEN Invalid(INVALID_NUMBER)
          ELSE IF ~HasDigit(x) THEN Invalid(PRICE_RANGE)
          ELSE IF Scaled(x) * 100 < Pow10(Scale(x))
                    \/ Scaled(x) > MAX_PRICE * Pow10(Scale(x))
            THEN Invalid(PRICE_RANGE)
          ELSE IF Scale(x) > 2 THEN Invalid(DECIMAL_PLACES)
          ELSE LET cents == Scaled(x) * Pow10(2 - Scale(x)) IN
            [valid |-> TRUE, error |-> "", value |-> cents,
             formatted |-> DigitsOf(cents \div 100) \o <<".">>
                             \o DigitsOf((cents % 100) \div 10)
                             \o DigitsOf(cents % 10)]
  IN
    (call.fn = "validatePriceInput" /\ call.done)
      => call.ret = ExpectedPrice(call.arg[1])

\* C22 witness: '$1.9' was accepted as 1.90
C22_Witness ==
  /\ call.fn = "validatePriceInput" /\ call.done
  /\ call.arg[1] = JsString(<<"$", "1", ".", "9">>)
  /\ call.ret.valid /\ call.ret.value = 190
  /\ call.ret.formatted = <<"1", ".", "9", "0">>

\* C23: validateGameNumber succeeds exactly when the argument is an integer
\* (a number without decimals, or a text that is an integer literal) between
\* 1 and max, and then returns that integer. Stated as claimed; parseInt
\* reads '2.5' as 2 and the number 2.5 passes the range test.
C23_GameNumberContract ==
  LET \* a text that is an integer literal: a sign at most, then digits only
      IsIntegerText(x) ==
        LET body == IF x # << >> /\ Head(x) = "-" THEN Tail(x) ELSE x IN
        body # << >> /\ \A i \in 1..Len(body) : IsDigit(body[i])
  IN
    (call.fn = "validateGameNumber" /\ call.done) =>
      LET v == call.arg[1]
          max == call.arg[2]
          isInt == IF v.t = "string" THEN IsIntegerText(Trim(v.s))
                   ELSE v.n % 10 = 0
          n == IF v.t = "string" THEN parseInt(v.s)[1] ELSE v.n \div 10
      IN IF isInt /\ 1 <= n /\ n <= max
           THEN call.ret.valid /\ call.ret.value = n * 10
           ELSE ~call.ret.valid

\* C25: clicking the calendar cell of the day that getDateForGameNumber(i)
\* shows selects game i, for every i from 1 to today's game. Stated as
\* claimed; dateToGameNumber takes Math.ceil of a whole number of days and
\* gives i - 1.
C25_CalendarInverse ==
  op = "selectCalendarDate" =>
    \A i \in 1..today :
      gameDate[1] = getDateForGameNumber(i) => selectedGameNumber = i

\* ------------------------------------------------------------ the store

\* C24: storage.get gives the default for a key that is missing, unreadable
\* or not JSON, and else the stored value; storage.set gives true and stores
\* the value, or gives false when the write throws; a StateManager built on
\* such a store has the default for every field it could not read, and an
\* update reaches the memory state whether or not the write succeeds.
C24_StoreNeverFails ==
  LET \* a key whose stored text cannot be read as a value
      NoValue(key) ==
        key \in unreadable \/ store[key] = Missing \/ store[key] = Malformed
  IN
    /\ (call.fn = "storage.get" /\ op = "storage.get") =>
         call.ret[1] = IF NoValue(call.arg[1]) THEN DefaultOf(call.arg[1])
                       ELSE store[call.arg[1]][1]
    /\ (call.fn = "storage.set" /\ op = "storage.set") =>
         /\ call.ret[1] <=> call.arg[1] \notin broken
         /\ call.ret[1] => store[call.arg[1]] = <<call.arg[2]>>
    /\ (op = "load" /\ pc = "constructed") =>
         /\ NoValue(KEY_ARCHIVE_MODE) => isArchiveMode = FALSE
         /\ NoValue(KEY_SELECTED_GAME_NUMBER) => selectedGameNumber = 1
         /\ NoValue(KEY_GAME_STATE) => gameState = DEFAULT_GAME_STATE
         /\ NoValue(KEY_USER_STATS) => userStats = DEFAULT_USER_STATS
    /\ op = "initializeGame" => gameState.gameNumber = gameNumber
    /\ op = "setGameWon" => gameState.hasWon

\* C24 witness: with a store that takes writes but throws on every read, a
\* stored win is read back as the default session
C24_Witness ==
  /\ unreadable = StorageKeys /\ broken = {}
  /\ op = "storage.get" /\ call.arg[1] = KEY_GAME_STATE
  /\ store[KEY_GAME_STATE] # Missing /\ store[KEY_GAME_STATE] # Malformed
  /\ store[KEY_GAME_STATE][1].hasWon
  /\ call.ret[1] = DEFAULT_GAME_STATE

\* ------------------------------------------------------------ the application
\* C29: until restart() is called, module setup, listener registration and
\* the game start each run at most once, whatever the interleaving of init()
\* calls.
C29_InitRunsOnce ==
  app.restarts = 0 =>
    /\ app.moduleSetups <= 1
    /\ app.listenerSetups <= 1
    /\ app.gameStarts <= 1

\* C30: initialized is set only when product data was loaded and
\* initializeGame ran; a failed game start leaves initialized false and shows
\* the initialization error.
C30_InitializedMeansStarted ==
  /\ app.initialized => app.gameReady
  /\ op = "fetch_failed" => ~app.initialized /\ app.errorShown

\* ------------------------------------------------------------ closeness

\* C21: createGuessObject classifies the guess as Win within 5% of the
\* target, Near within 25%, else Far, both thresholds inclusive, whether the
\* percentage is taken of the decimal amounts or of the numbers they are read
\* as; the direction is Confirmed exactly for Win, else Up for a guess below
\* the target and Down above; a target of 0 gives Win for guess 0, else Far.
C21_ClosenessThresholds ==
  LET \* the closeness of x to y in exact arithmetic: Win when |x - y| / y * 100 is
      \* at most 5, Near when at most 25, else Far (for y = 0: Win for x = 0, else
      \* Far)
      ExactCloseness(x, y) ==
        LET diff == IF CmpN(x, y) >= 0 THEN SubN(x, y) ELSE SubN(y, x) IN
        IF CmpN(MulSmall(diff, 100), MulSmall(y, WIN_THRESHOLD_PERCENT)) <= 0
          THEN GUESS_WIN
        ELSE IF CmpN(MulSmall(diff, 100), MulSmall(y, NEAR_THRESHOLD_PERCENT)) <= 0
          THEN GUESS_NEAR
        ELSE GUESS_FAR
      \* the closeness of the decimal amounts
      DecimalCloseness(guess, target) == ExactCloseness(NatOf(guess), NatOf(target))
      \* the closeness of the numbers the decimal amounts are read as
      NumberCloseness(guess, target) ==
        LET al == Aligned(DecimalNumber(guess), DecimalNumber(target))
        IN ExactCloseness(al.x, al.y)
  IN
    (call.fn = "createGuessObject" /\ call.done) =>
      LET guess == call.arg[1]
          target == call.arg[2]
          made == call.ret[1]
      IN /\ made.guess = guess
         /\ \/ made.closeness = DecimalCloseness(guess, target)
            \/ made.closeness = NumberCloseness(guess, target)
         /\ made.direction =
              IF made.closeness = GUESS_WIN THEN DIR_CHECK
              ELSE IF guess < target THEN DIR_UP
              ELSE DIR_DOWN

====
